---- MODULE Spec2Model ----
(***************************************************************************)
(* Model of bin/movie/make_movie.py: the text layout functions             *)
(* (merge_short_lines, calculate_optimized_fontsize), the cue timing       *)
(* rules and the scene / project assembly of create_video_from_json.       *)
(*                                                                         *)
(* Texts are sequences of one-character strings, NL being the line break.  *)
(* Times are integers counting tenths of a second, so the literal 0.1 of   *)
(* the source is 1 and the trailing still's 0.5 is 5.                      *)
(***************************************************************************)
EXTENDS Integers, Sequences, FiniteSets, TLC

\* ------------------------------------------------------------------ bounds
MaxLen == 4          \* longest text of the text-function specification
MaxThreshold == 3    \* largest merge threshold tried (smallest is -1)
MaxBase == 3         \* largest base font size tried
MaxWidth == 3        \* largest target width tried (smallest is 1)
MaxTime == 2         \* largest start offset, declared duration and scene length
MaxCues == 2         \* longest cue list of a scene
MaxScenes == 3       \* longest scene list of a project

\* ------------------------------------------------------ program constants
ClampFloor == 1          \* sub_duration = 0.1
ThumbnailDuration == 5   \* thumbnail_duration = 0.5
MergeThreshold == 10     \* merge_short_lines(sub['text'], threshold=10)

\* ------------------------------------------------------------ text values
NL == "\n"
Letters == {"a", "b"}
Chars == Letters \cup {NL}

RECURSIVE TextsOfLen(_)
TextsOfLen(n) ==
    IF n = 0 THEN {<<>>}
    ELSE {Append(t, c) : t \in TextsOfLen(n - 1), c \in Chars}

Texts == UNION {TextsOfLen(n) : n \in 0..MaxLen}

Min(a, b) == IF a <= b THEN a ELSE b

\* str.split('\n'): the lines of a text, an empty text giving one empty line
RECURSIVE Split(_)
Split(text) ==
    IF \A k \in 1..Len(text) : text[k] # NL
    THEN <<text>>
    ELSE LET k == CHOOSE k \in 1..Len(text) :
                      /\ text[k] = NL
                      /\ \A m \in 1..(k - 1) : text[m] # NL
         IN  <<SubSeq(text, 1, k - 1)>> \o Split(SubSeq(text, k + 1, Len(text)))

\* '\n'.join(lines)
RECURSIVE Join(_)
Join(lines) ==
    IF Len(lines) = 0 THEN <<>>
    ELSE IF Len(lines) = 1 THEN lines[1]
    ELSE lines[1] \o <<NL>> \o Join(Tail(lines))

\* the for loop of merge_short_lines, from index i (1-based) on
RECURSIVE MergeLoop(_, _, _, _, _)
MergeLoop(lines, i, buffer, merged, threshold) ==
    IF i > Len(lines)
    THEN Append(merged, buffer)
    ELSE LET next_line == lines[i]
         IN  IF Len(buffer) + Len(next_line) <= threshold
             THEN MergeLoop(lines, i + 1, buffer \o next_line, merged, threshold)
             ELSE MergeLoop(lines, i + 1, next_line, Append(merged, buffer), threshold)

\* the loop with the flush of the buffer lost when a new line is started
RECURSIVE MergeLoopDropsFlush(_, _, _, _, _)
MergeLoopDropsFlush(lines, i, buffer, merged, threshold) ==
    IF i > Len(lines)
    THEN Append(merged, buffer)
    ELSE LET next_line == lines[i]
         IN  IF Len(buffer) + Len(next_line) <= threshold
             THEN MergeLoopDropsFlush(lines, i + 1, buffer \o next_line, merged, threshold)
             ELSE MergeLoopDropsFlush(lines, i + 1, next_line, merged, threshold)

merge_short_lines_lossy(text, threshold) ==
    IF text = <<>> THEN text
    ELSE LET lines == Split(text)
         IN  IF Len(lines) <= 1 THEN text
             ELSE Join(MergeLoopDropsFlush(lines, 2, lines[1], <<>>, threshold))

merge_short_lines(text, threshold) ==
    IF text = <<>> THEN text
    ELSE LET lines == Split(text)
         IN  IF Len(lines) <= 1 THEN text
             ELSE Join(MergeLoop(lines, 2, lines[1], <<>>, threshold))

\* max(len(line) for line in lines)
MaxCharCount(lines) ==
    CHOOSE n \in {Len(lines[k]) : k \in 1..Len(lines)} :
        \A k \in 1..Len(lines) : Len(lines[k]) <= n

\* int((target_width / max_char_count) * 0.95); the integer quotient agrees
\* with the double computation for every target_width, max_char_count < 19
CalculatedSize(target_width, max_char_count) ==
    (target_width * 95) \div (max_char_count * 100)

calculate_optimized_fontsize(text, base_fontsize, target_width) ==
    IF text = <<>> THEN base_fontsize
    ELSE LET lines == Split(text)
             max_char_count == MaxCharCount(lines)
         IN  IF max_char_count = 0 THEN base_fontsize
             ELSE Min(base_fontsize, CalculatedSize(target_width, max_char_count))

\* ----------------------------------------------------------- style sheets
\* A style sheet is the JSON object of the style document in declaration
\* order: a sequence of [id, entry] with distinct ids. Every entry carries
\* the fields the schema requires (fontsize, font, color).
StyleIds == {"caption_white", "title", "note"}

EntryOf(id) ==
    IF id = "caption_white" THEN [fontsize |-> 2, font |-> "gothic", color |-> "white"]
    ELSE IF id = "title" THEN [fontsize |-> 3, font |-> "gothic", color |-> "yellow"]
    ELSE [fontsize |-> 1, font |-> "mincho", color |-> "black"]

Sheet(ids) == [k \in 1..Len(ids) |-> [id |-> ids[k], entry |-> EntryOf(ids[k])]]

HasKey(styles, id) == \E k \in 1..Len(styles) : styles[k].id = id
Get(styles, id) == styles[CHOOSE k \in 1..Len(styles) : styles[k].id = id].entry
\* next(iter(styles.values()))
FirstValue(styles) == styles[1].entry

\* the style document behind styles_path: no path given, no such file, or
\* the parsed document
NoPath == [kind |-> "nopath", doc |-> <<>>]
NoFile == [kind |-> "nofile", doc |-> <<>>]
Doc(sheet) == [kind |-> "doc", doc |-> sheet]

\* None, which `if not styles` treats like the empty dict
NoStyles == <<>>

load_styles(src) ==
    IF src.kind = "nopath" THEN NoStyles
    ELSE IF src.kind = "nofile" THEN NoStyles
    ELSE IF src.doc = <<>> THEN NoStyles
    ELSE src.doc

\* styles.get('caption_white') or next(iter(styles.values())); every entry
\* of a sheet is a non-empty dict, so `or` falls through only on a missing key
DefaultStyle(styles) ==
    IF HasKey(styles, "caption_white") THEN Get(styles, "caption_white")
    ELSE FirstValue(styles)

\* the default taken from the first entry whatever the sheet holds
ResolveStyleFirstEntry(styles, id) ==
    IF HasKey(styles, id) THEN Get(styles, id) ELSE FirstValue(styles)

\* styles.get(sub['style'], default_style)
ResolveStyle(styles, id) ==
    IF HasKey(styles, id) THEN Get(styles, id) ELSE DefaultStyle(styles)

\* ------------------------------------------------------ background colors
\* A JSON value of project_settings.background_color: null, a list of
\* numbers, or a string (a sequence of characters).
JNull == [type |-> "null", ints |-> <<>>, chars |-> <<>>]
JList(ints) == [type |-> "list", ints |-> ints, chars |-> <<>>]
JStr(chars) == [type |-> "str", ints |-> <<>>, chars |-> chars]
Tuple(ints) == [type |-> "tuple", ints |-> ints, chars |-> <<>>]
IsTuple(v) == v.type = "tuple"
\* the ValueError of int(..., 16), which nothing catches
Raised == [type |-> "error", ints |-> <<>>, chars |-> <<>>]

White == <<"w", "h", "i", "t", "e">>
Black == <<"b", "l", "a", "c", "k">>

\* str.strip() for the blank
RECURSIVE LStrip(_)
LStrip(s) == IF s # <<>> /\ Head(s) = " " THEN LStrip(Tail(s)) ELSE s
RECURSIVE RStrip(_)
RStrip(s) ==
    IF s # <<>> /\ s[Len(s)] = " " THEN RStrip(SubSeq(s, 1, Len(s) - 1)) ELSE s
Strip(s) == LStrip(RStrip(s))

LowerOf == [c \in {"W", "H", "I", "T", "E", "B", "L", "A", "C", "K"} |->
    CASE c = "W" -> "w" [] c = "H" -> "h" [] c = "I" -> "i" [] c = "T" -> "t"
      [] c = "E" -> "e" [] c = "B" -> "b" [] c = "L" -> "l" [] c = "A" -> "a"
      [] c = "C" -> "c" [] c = "K" -> "k"]
\* str.lower()
Lower(s) == [k \in 1..Len(s) |-> IF s[k] \in DOMAIN LowerOf THEN LowerOf[s[k]] ELSE s[k]]

HexLower == <<"0", "1", "2", "3", "4", "5", "6", "7", "8", "9",
              "a", "b", "c", "d", "e", "f">>
HexUpper == <<"0", "1", "2", "3", "4", "5", "6", "7", "8", "9",
              "A", "B", "C", "D", "E", "F">>
IsHex(c) == \E v \in 0..15 : HexLower[v + 1] = c \/ HexUpper[v + 1] = c
HexValue(c) == CHOOSE v \in 0..15 : HexLower[v + 1] = c \/ HexUpper[v + 1] = c
\* int(color_value[i:i + 2], 16) of two hex digits
HexPair(s, i) == 16 * HexValue(s[i]) + HexValue(s[i + 1])
\* int(..., 16) raises on a pair with a character that is no hex digit (the
\* sign and blank forms int() also reads are in none of the values tried)
HexRaises(s) == \E k \in 2..7 : ~IsHex(s[k])

\* the names white and black not mapped: every name passes through
normalize_background_color_no_names(color_value) ==
    IF color_value.type = "null" THEN color_value
    ELSE IF color_value.type = "list" /\ Len(color_value.ints) = 3
         THEN Tuple(color_value.ints)
    ELSE IF color_value.type = "str"
         THEN LET stripped == Strip(color_value.chars)
              IN  IF stripped # <<>> /\ Head(stripped) = "#" /\ Len(stripped) = 7
                  THEN IF HexRaises(stripped) THEN Raised
                       ELSE Tuple(<<HexPair(stripped, 2), HexPair(stripped, 4),
                                    HexPair(stripped, 6)>>)
                  ELSE JStr(stripped)
    ELSE color_value

normalize_background_color(color_value) ==
    IF color_value.type = "null" THEN color_value
    ELSE IF color_value.type = "list" /\ Len(color_value.ints) = 3
         THEN Tuple(color_value.ints)
    ELSE IF color_value.type = "str"
         THEN LET stripped == Strip(color_value.chars)
              IN  IF stripped # <<>> /\ Head(stripped) = "#" /\ Len(stripped) = 7
                  THEN IF HexRaises(stripped) THEN Raised
                       ELSE Tuple(<<HexPair(stripped, 2), HexPair(stripped, 4),
                                    HexPair(stripped, 6)>>)
                  ELSE IF Lower(stripped) = White THEN Tuple(<<255, 255, 255>>)
                  ELSE IF Lower(stripped) = Black THEN Tuple(<<0, 0, 0>>)
                  ELSE JStr(stripped)
    ELSE color_value

\* settings.get('background_color', 'white'): a project without the key is
\* written Absent
Absent == [type |-> "absent", ints |-> <<>>, chars |-> <<>>]
BackgroundSetting(settings) ==
    IF settings.background_color = Absent THEN JStr(White)
    ELSE settings.background_color

\* ------------------------------------------------------------ cue timing
\* A cue of a scene's subtitles list; has_duration is `'duration' in sub`.
Cue(style, text, start_offset, has_duration, duration) ==
    [style |-> style, text |-> text, start_offset |-> start_offset,
     has_duration |-> has_duration, duration |-> duration,
     position |-> <<"center", "bottom">>]

\* the declared duration ignored: every cue timed from its neighbours
ComputedDurationNoExplicit(subtitles, j, duration) ==
    LET start_time == subtitles[j].start_offset
    IN  IF j < Len(subtitles) THEN subtitles[j + 1].start_offset - start_time
        ELSE duration - start_time

\* every cue timed to the end of the scene, the next cue never looked at
ComputedDurationNoNext(subtitles, j, duration) ==
    LET sub == subtitles[j]
    IN  IF sub.has_duration THEN sub.duration
        ELSE duration - sub.start_offset

\* the last cue given the whole scene length, its start not subtracted
ComputedDurationWholeScene(subtitles, j, duration) ==
    LET sub == subtitles[j]
        start_time == sub.start_offset
    IN  IF sub.has_duration THEN sub.duration
        ELSE IF j < Len(subtitles) THEN subtitles[j + 1].start_offset - start_time
        ELSE duration

\* sub_duration before the clamp; j is the cue's 1-based index
ComputedDuration(subtitles, j, duration) ==
    LET sub == subtitles[j]
        start_time == sub.start_offset
    IN  IF sub.has_duration THEN sub.duration
        ELSE IF j < Len(subtitles) THEN subtitles[j + 1].start_offset - start_time
        ELSE duration - start_time

\* the clamp left out
ClampNone(sub_duration) == sub_duration

\* if sub_duration < 0: sub_duration = 0.1
Clamp(sub_duration) == IF sub_duration < 0 THEN ClampFloor ELSE sub_duration

\* --------------------------------------------------------------- layers
Layer(kind) ==
    [kind |-> kind, start |-> 0, duration |-> 0, text |-> <<>>, font_size |-> 0,
     style |-> EntryOf("note"), position |-> <<"center">>, zoom |-> FALSE,
     color |-> <<>>, size |-> <<>>]

\* ColorClip(size=(settings['width'], settings['height']), color=background_color)
ColorLayer(color, settings, duration) ==
    [Layer("background") EXCEPT !.color = color.ints, !.duration = duration,
                                !.size = <<settings.width, settings.height>>]

ImageLayer(zoom, duration) ==
    [Layer("image") EXCEPT !.zoom = zoom, !.duration = duration]

\* int(settings['width'] * 0.9)
TargetWidth(width) == (width * 9) \div 10

\* the TextClip of a cue; the clip constructors belong to the render library
\* and are taken to accept whatever they are given
TextLayer(sub, style, sub_duration, width) ==
    LET target_width == TargetWidth(width)
        merged_text == merge_short_lines(sub.text, MergeThreshold)
        optimized_size ==
            calculate_optimized_fontsize(merged_text, style.fontsize, target_width)
        display_text == merged_text \o <<NL, " ">>
    IN  [Layer("text") EXCEPT !.text = display_text, !.font_size = optimized_size,
                              !.style = style, !.start = sub.start_offset,
                              !.duration = sub_duration, !.position = sub.position]

\* a text clip for every cue of the list, not only for the first
CueLayersAll(subtitles, styles, duration, width) ==
    [j \in 1..Len(subtitles) |->
        TextLayer(subtitles[j], ResolveStyle(styles, subtitles[j].style),
                  Clamp(ComputedDuration(subtitles, j, duration)), width)]

\* the text clips of a scene: subtitles[:1] only
CueLayers(subtitles, styles, duration, width) ==
    IF subtitles = <<>> THEN <<>>
    ELSE <<TextLayer(subtitles[1], ResolveStyle(styles, subtitles[1].style),
                     Clamp(ComputedDuration(subtitles, 1, duration)), width)>>

\* the CompositeVideoClip of scene n, carrying the narration handle n
SceneVideo(n, s, settings, styles, duration) ==
    LET img == ImageLayer(s.animation = "zoom_in", duration)
        background_color == normalize_background_color(BackgroundSetting(settings))
        sub_clips ==
            IF IsTuple(background_color)
            THEN <<ColorLayer(background_color, settings, duration), img>>
            ELSE <<img>>
    IN  [scene |-> n, audio |-> n, duration |-> duration,
         layers |-> sub_clips \o CueLayers(s.subtitles, styles, duration, settings.width),
         bg_color |-> background_color]

\* the composition of the trailing still: no audio, written as handle 0
ThumbnailClip(settings) ==
    LET background_color == normalize_background_color(BackgroundSetting(settings))
        thumbnail_image == ImageLayer(FALSE, ThumbnailDuration)
    IN  IF IsTuple(background_color)
        THEN [scene |-> 0, audio |-> 0, duration |-> ThumbnailDuration,
              layers |-> <<ColorLayer(background_color, settings, ThumbnailDuration),
                           thumbnail_image>>,
              bg_color |-> background_color]
        ELSE [scene |-> 0, audio |-> 0, duration |-> ThumbnailDuration,
              layers |-> <<thumbnail_image>>, bg_color |-> JNull]

\* --------------------------------------------------------------- inputs
Scene(audio_exists, image_exists, audio_duration, animation, subtitles) ==
    [audio_exists |-> audio_exists, image_exists |-> image_exists,
     audio_duration |-> audio_duration, animation |-> animation,
     subtitles |-> subtitles]

\* bgm, thumbnail: "unset" (no path given), "missing" (no such file), "present";
\* outdir: "none" (the output path has no directory part), "exists", "absent"
Project(scenes, width, background_color, bgm, thumbnail, outdir, styles_src) ==
    [scenes |-> scenes,
     settings |-> [width |-> width, height |-> 2 * width,
                   background_color |-> background_color, bgm |-> bgm],
     thumbnail |-> thumbnail, outdir |-> outdir, styles_src |-> styles_src]

Times == (-1)..MaxTime
CueTexts == {<<"a">>, <<"a", NL, "b", "b">>}

\* The first cue of a list is the one rendered: every field varies.
FirstCues ==
    {Cue(st, tx, so, FALSE, 0) : st \in StyleIds, tx \in CueTexts, so \in Times}
    \cup {c \in [style : StyleIds, text : CueTexts, start_offset : Times,
                 has_duration : {TRUE}, duration : Times,
                 position : {<<"center", "bottom">>}] : TRUE}

\* Of the cues behind the first the code reads one field, the start offset
\* of the second; the cues behind that only count towards the list's length.
SecondCues == {Cue("caption_white", <<"b">>, so, FALSE, 0) : so \in Times}
FillerCue == Cue("caption_white", <<"b">>, MaxTime, FALSE, 0)

CueTails ==
    {<<>>} \cup {<<c>> \o [k \in 1..n |-> FillerCue] :
                    c \in SecondCues, n \in 0..(MaxCues - 2)}

CueLists == {<<>>} \cup {<<f>> \o t : f \in FirstCues, t \in CueTails}

PlainCue == Cue("caption_white", <<"a">>, 0, FALSE, 0)
PlainSheet == Sheet(<<"caption_white">>)
CueSheets == {PlainSheet, Sheet(<<"title", "caption_white">>),
              Sheet(<<"title", "note">>)}

BgValues == {Absent, JNull, JList(<<1, 2, 3>>), JList(<<1, 2>>),
             JStr(<<"#", "f", "F", "0", "0", "1", "0">>), JStr(<<" ", "B", "l", "a", "c", "k">>),
             JStr(<<"r", "e", "d">>), JStr(<<"#", "1", "2", "3", "4", "5", "g">>)}

\* one scene with both assets, every cue list, every sheet
CueProjects ==
    {Project(<<Scene(TRUE, TRUE, d, "none", cues)>>, 4, Absent,
             "unset", "unset", "exists", Doc(sheet)) :
        d \in 1..MaxTime, cues \in CueLists, sheet \in CueSheets}

\* scene lists with every combination of present and missing assets
PlainScenes ==
    {Scene(a, im, MaxTime, "none", cues) :
        a \in BOOLEAN, im \in BOOLEAN, cues \in {<<>>, <<PlainCue>>}}

RECURSIVE SceneLists(_)
SceneLists(n) ==
    IF n = 0 THEN {<<>>}
    ELSE {Append(l, sc) : l \in SceneLists(n - 1), sc \in PlainScenes}

AssemblyProjects ==
    {Project(scenes, 4, Absent, "present", "present", "absent", Doc(PlainSheet)) :
        scenes \in UNION {SceneLists(n) : n \in 0..MaxScenes}}

\* one scene under every project setting and style document
SettingsProjects ==
    {Project(<<Scene(a, im, MaxTime, anim, <<PlainCue>>)>>, 4, bg, bgm, th, od, src) :
        a \in BOOLEAN, im \in BOOLEAN, anim \in {"none", "zoom_in"},
        bg \in BgValues, bgm \in {"unset", "missing", "present"},
        th \in {"unset", "missing", "present"},
        od \in {"none", "exists", "absent"},
        src \in {NoPath, NoFile, Doc(<<>>), Doc(PlainSheet)}}

Projects == CueProjects \cup AssemblyProjects \cup SettingsProjects

\* ---------------------------------------------------------------- state
VARIABLES
    project,       \* the project description, style document and files given
    pc,            \* position in create_video_from_json
    styles,        \* the loaded style sheet
    i,             \* 1-based index of the scene the loop is at
    audio,         \* scene whose narration clip the local `audio` holds, 0: unbound
    duration,      \* the local `duration`
    scene_clips,   \* compositions emitted so far
    open_handles,  \* audio readers opened and not closed: scene numbers, 0: the bgm
    final_video,   \* the concatenated timeline, <<>> before concatenation
    bgm_mixed,     \* the music bed replaced the timeline's audio
    made_dir,      \* os.makedirs(output_dir) was called
    written,       \* write_videofile was called
    outcome,       \* how the run ended
    lab,           \* inputs and results of the text functions on their own
    run,           \* 1 in the first call of create_video_from_json, 2 in the second
    prev           \* the timeline the first call ended with

pipeVars == <<project, pc, styles, i, audio, duration, scene_clips, open_handles,
              final_video, bgm_mixed, made_dir, written, outcome, run, prev>>
vars == <<project, pc, styles, i, audio, duration, scene_clips, open_handles,
          final_video, bgm_mixed, made_dir, written, outcome, lab, run, prev>>

LabIdle == [stage |-> "idle", text |-> <<>>, threshold |-> 0, base_fontsize |-> 1,
            target_width |-> 0, merged |-> <<>>, size |-> 0]

\* no timeline yet
NoRun == [final_video |-> <<>>, bgm_mixed |-> FALSE, outcome |-> "none",
          made_dir |-> FALSE]

InitLocals ==
    /\ styles = NoStyles
    /\ i = 1
    /\ audio = 0
    /\ duration = 0
    /\ scene_clips = <<>>
    /\ open_handles = {}
    /\ final_video = <<>>
    /\ bgm_mixed = FALSE
    /\ made_dir = FALSE
    /\ written = FALSE
    /\ outcome = "running"

\* the run from line 117 on: the project JSON exists and has been read
Init ==
    /\ project \in Projects
    /\ pc = "start"
    /\ InitLocals
    /\ lab = LabIdle
    /\ run = 1
    /\ prev = NoRun

\* -------------------------------------------------------------- actions
\* styles = load_styles(styles_path); if not styles: return
LoadStyles ==
    /\ pc = "start"
    /\ styles' = load_styles(project.styles_src)
    /\ IF styles' = NoStyles
       THEN pc' = "done" /\ outcome' = "config_error"
       ELSE pc' = "scene" /\ outcome' = outcome
    /\ UNCHANGED <<project, i, audio, duration, scene_clips, open_handles,
                   final_video, bgm_mixed, made_dir, written, lab, run, prev>>

\* the narration file is missing: continue
SkipAudio ==
    /\ pc = "scene"
    /\ i <= Len(project.scenes)
    /\ ~project.scenes[i].audio_exists
    /\ i' = i + 1
    /\ UNCHANGED <<project, pc, styles, audio, duration, scene_clips, open_handles,
                   final_video, bgm_mixed, made_dir, written, outcome, lab, run, prev>>

\* audio = AudioFileClip(audio_path); duration = audio.duration. The function
\* calls close() on no clip, so no action takes a handle out of open_handles.
OpenAudio ==
    /\ pc = "scene"
    /\ i <= Len(project.scenes)
    /\ project.scenes[i].audio_exists
    /\ audio' = i
    /\ open_handles' = open_handles \cup {i}
    /\ duration' = project.scenes[i].audio_duration
    /\ pc' = "image"
    /\ UNCHANGED <<project, styles, i, scene_clips, final_video, bgm_mixed,
                   made_dir, written, outcome, lab, run, prev>>

\* the image file is missing and the loop is left: break for continue
SkipImageBreaks ==
    /\ pc = "image"
    /\ ~project.scenes[i].image_exists
    /\ i' = Len(project.scenes) + 1
    /\ pc' = "scene"
    /\ UNCHANGED <<project, styles, audio, duration, scene_clips, open_handles,
                   final_video, bgm_mixed, made_dir, written, outcome, lab, run, prev>>

\* the image file is missing: continue
SkipImage ==
    /\ pc = "image"
    /\ ~project.scenes[i].image_exists
    /\ i' = i + 1
    /\ pc' = "scene"
    /\ UNCHANGED <<project, styles, audio, duration, scene_clips, open_handles,
                   final_video, bgm_mixed, made_dir, written, outcome, lab, run, prev>>

\* the background color of the settings is a '#' string that int(..., 16)
\* rejects: the ValueError of line 149 ends the run
ComposeSceneRaises ==
    /\ pc = "image"
    /\ project.scenes[i].image_exists
    /\ normalize_background_color(BackgroundSetting(project.settings)) = Raised
    /\ pc' = "done"
    /\ outcome' = "crashed"
    /\ UNCHANGED <<project, styles, i, audio, duration, scene_clips, open_handles,
                   final_video, bgm_mixed, made_dir, written, lab, run, prev>>

\* the layers of the scene, composed and appended to scene_clips
ComposeScene ==
    /\ pc = "image"
    /\ project.scenes[i].image_exists
    /\ normalize_background_color(BackgroundSetting(project.settings)) # Raised
    /\ scene_clips' = Append(scene_clips,
           SceneVideo(audio, project.scenes[i], project.settings, styles, duration))
    /\ i' = i + 1
    /\ pc' = "scene"
    /\ UNCHANGED <<project, styles, audio, duration, open_handles, final_video,
                   bgm_mixed, made_dir, written, outcome, lab, run, prev>>

\* the loop falls through to the rest of the function although nothing survived
NoValidScenesFallsThrough ==
    /\ pc = "scene"
    /\ i > Len(project.scenes)
    /\ scene_clips = <<>>
    /\ pc' = "thumbnail"
    /\ UNCHANGED <<project, styles, i, audio, duration, scene_clips, open_handles,
                   final_video, bgm_mixed, made_dir, written, outcome, lab, run, prev>>

\* if not scene_clips: return
NoValidScenes ==
    /\ pc = "scene"
    /\ i > Len(project.scenes)
    /\ scene_clips = <<>>
    /\ pc' = "done"
    /\ outcome' = "no_valid_scenes"
    /\ UNCHANGED <<project, styles, i, audio, duration, scene_clips, open_handles,
                   final_video, bgm_mixed, made_dir, written, lab, run, prev>>

\* final_video = concatenate_videoclips(scene_clips, method="compose")
Concatenate ==
    /\ pc = "scene"
    /\ i > Len(project.scenes)
    /\ scene_clips # <<>>
    /\ final_video' = scene_clips
    /\ pc' = "thumbnail"
    /\ UNCHANGED <<project, styles, i, audio, duration, scene_clips, open_handles,
                   bgm_mixed, made_dir, written, outcome, lab, run, prev>>

\* the trailing still, appended when its path is given and the file exists
InsertThumbnail ==
    /\ pc = "thumbnail"
    /\ IF /\ project.thumbnail = "present"
          /\ normalize_background_color(BackgroundSetting(project.settings)) = Raised
       THEN /\ final_video' = final_video
            /\ pc' = "done"
            /\ outcome' = "crashed"
       ELSE /\ final_video' = IF project.thumbnail = "present"
                              THEN Append(final_video, ThumbnailClip(project.settings))
                              ELSE final_video
            /\ pc' = "bgm"
            /\ outcome' = outcome
    /\ UNCHANGED <<project, styles, i, audio, duration, scene_clips, open_handles,
                   bgm_mixed, made_dir, written, lab, run, prev>>

\* the music bed, mixed in when its path is given and the file exists
MixBgm ==
    /\ pc = "bgm"
    /\ IF project.settings.bgm = "present"
       THEN open_handles' = open_handles \cup {0} /\ bgm_mixed' = TRUE
       ELSE UNCHANGED <<open_handles, bgm_mixed>>
    /\ pc' = "output"
    /\ UNCHANGED <<project, styles, i, audio, duration, scene_clips, final_video,
                   made_dir, written, outcome, lab, run, prev>>

\* the output directory made on demand, then final_video.write_videofile
WriteOutput ==
    /\ pc = "output"
    /\ made_dir' = (project.outdir = "absent")
    /\ written' = TRUE
    /\ pc' = "done"
    /\ outcome' = "written"
    /\ UNCHANGED <<project, styles, i, audio, duration, scene_clips, open_handles,
                   final_video, bgm_mixed, lab, run, prev>>

\* a second call that finds the clips of the first still in scene_clips, as
\* a list kept at module level would be
RerunKeepsClips ==
    /\ pc = "done"
    /\ run = 1
    /\ prev' = [final_video |-> final_video, bgm_mixed |-> bgm_mixed,
                outcome |-> outcome, made_dir |-> made_dir]
    /\ run' = 2
    /\ project' = [project EXCEPT !.outdir = IF made_dir THEN "exists" ELSE @]
    /\ pc' = "start"
    /\ styles' = NoStyles
    /\ i' = 1
    /\ audio' = 0
    /\ duration' = 0
    /\ final_video' = <<>>
    /\ bgm_mixed' = FALSE
    /\ made_dir' = FALSE
    /\ written' = FALSE
    /\ outcome' = "running"
    /\ UNCHANGED <<scene_clips, open_handles, lab>>

\* create_video_from_json called again with the same arguments in the same
\* process: the documents are read again, every local starts afresh, the
\* readers the first call left open stay open, and the output directory the
\* first call made exists
Rerun ==
    /\ pc = "done"
    /\ run = 1
    /\ prev' = [final_video |-> final_video, bgm_mixed |-> bgm_mixed,
                outcome |-> outcome, made_dir |-> made_dir]
    /\ run' = 2
    /\ project' = [project EXCEPT !.outdir = IF made_dir THEN "exists" ELSE @]
    /\ pc' = "start"
    /\ styles' = NoStyles
    /\ i' = 1
    /\ audio' = 0
    /\ duration' = 0
    /\ scene_clips' = <<>>
    /\ final_video' = <<>>
    /\ bgm_mixed' = FALSE
    /\ made_dir' = FALSE
    /\ written' = FALSE
    /\ outcome' = "running"
    /\ UNCHANGED <<open_handles, lab>>

Next ==
    \/ LoadStyles
    \/ SkipAudio
    \/ OpenAudio
    \/ SkipImage
    \/ ComposeScene
    \/ ComposeSceneRaises
    \/ NoValidScenes
    \/ Concatenate
    \/ InsertThumbnail
    \/ MixBgm
    \/ WriteOutput
    \/ Rerun

Spec == Init /\ [][Next]_vars

\* ------------------------------------------- the text functions on their own
IdleProject == Project(<<>>, 4, Absent, "unset", "unset", "none", NoPath)

InitText ==
    /\ project = IdleProject
    /\ pc = "text"
    /\ InitLocals
    /\ lab \in [stage : {"input"}, text : Texts, threshold : (-1)..MaxThreshold,
                base_fontsize : 1..MaxBase, target_width : 1..MaxWidth,
                merged : {<<>>}, size : {0}]
    /\ run = 1
    /\ prev = NoRun

\* merged_text = merge_short_lines(text, threshold)
LabMerge ==
    /\ lab.stage = "input"
    /\ lab' = [lab EXCEPT !.stage = "merged",
                          !.merged = merge_short_lines(lab.text, lab.threshold)]
    /\ UNCHANGED pipeVars

\* calculate_optimized_fontsize of the merged text
LabFontsize ==
    /\ lab.stage = "merged"
    /\ lab' = [lab EXCEPT !.stage = "sized",
                          !.size = calculate_optimized_fontsize(
                                       lab.merged, lab.base_fontsize, lab.target_width)]
    /\ UNCHANGED pipeVars

NextText == LabMerge \/ LabFontsize

SpecText == InitText /\ [][NextText]_vars

\* ------------------------------------------------------------- claims
\* what the claims say of a text: its line count and its characters
LineCount(text) == Cardinality({k \in 1..Len(text) : text[k] = NL}) + 1
Content(text) == SelectSeq(text, LAMBDA c : c # NL)

\* C1: merge_short_lines never returns more lines than it was given, and the
\* characters of its result, line breaks aside, are those of its input in
\* the same order.
C1_MergeKeepsContent ==
    lab.stage \in {"merged", "sized"} =>
        /\ LineCount(lab.merged) <= LineCount(lab.text)
        /\ Content(lab.merged) = Content(lab.text)

\* a text of three lines of which two were merged and one was not
C1_Witness ==
    /\ lab.stage = "merged"
    /\ LineCount(lab.text) = 3
    /\ LineCount(lab.merged) = 2
    /\ Content(lab.merged) # <<>>

\* C2: calculate_optimized_fontsize returns a size from 1 to base_fontsize,
\* also when the longest line has more characters than the target width has
\* pixels.
C2_FontsizeInRange ==
    lab.stage = "sized" =>
        /\ 1 <= lab.size
        /\ lab.size <= lab.base_fontsize

\* what the claims say of a run: the scenes with both assets, the clip a
\* scene was given, the text overlay of a clip
Survives(n) ==
    project.scenes[n].audio_exists /\ project.scenes[n].image_exists
Processed(n) == n \in 1..Len(project.scenes) /\ n < i
Emitted(n) == \E k \in 1..Len(scene_clips) : scene_clips[k].scene = n
ClipOf(n) == scene_clips[CHOOSE k \in 1..Len(scene_clips) : scene_clips[k].scene = n]
TextLayers(clip) == SelectSeq(clip.layers, LAMBDA l : l.kind = "text")
HasOverlay(n) == Emitted(n) /\ Len(TextLayers(ClipOf(n))) = 1
Overlay(n) == TextLayers(ClipOf(n))[1]
Cues(n) == project.scenes[n].subtitles
Rendered(n) == Processed(n) /\ Survives(n) /\ Cues(n) # <<>>
Declares(n) == Cues(n)[1].has_duration
\* the duration the timing rules give the first cue of scene n when it
\* declares none
Gap(n) ==
    IF Len(Cues(n)) > 1
    THEN Cues(n)[2].start_offset - Cues(n)[1].start_offset
    ELSE project.scenes[n].audio_duration - Cues(n)[1].start_offset

\* C3 as stated: a declared duration is the resolved duration, whatever its
\* value.
C3_DeclaredVerbatim ==
    \A n \in 1..Len(project.scenes) :
        Rendered(n) /\ Declares(n) =>
            HasOverlay(n) /\ Overlay(n).duration = Cues(n)[1].duration

\* C3 amended: a declared duration that is not negative is the resolved
\* duration; a negative one is resolved to 0.1.
C3_DeclaredUnlessNegative ==
    \A n \in 1..Len(project.scenes) :
        Rendered(n) /\ Declares(n) =>
            /\ HasOverlay(n)
            /\ Cues(n)[1].duration >= 0 => Overlay(n).duration = Cues(n)[1].duration
            /\ Cues(n)[1].duration < 0 => Overlay(n).duration = ClampFloor

\* a declared duration kept although the next cue and the end of the scene
\* would both give another one
C3_Witness ==
    \E n \in 1..Len(project.scenes) :
        /\ Rendered(n) /\ Declares(n)
        /\ Len(Cues(n)) > 1
        /\ Cues(n)[1].duration > 0
        /\ Cues(n)[1].duration # Cues(n)[2].start_offset - Cues(n)[1].start_offset
        /\ Cues(n)[1].duration # project.scenes[n].audio_duration - Cues(n)[1].start_offset
        /\ Overlay(n).duration = Cues(n)[1].duration

\* C4: a rendered cue that declares no duration lasts until the next cue
\* starts, or until the scene ends when it is the last one, whenever that
\* is not negative.
C4_GapDuration ==
    \A n \in 1..Len(project.scenes) :
        Rendered(n) /\ ~Declares(n) /\ Gap(n) >= 0 =>
            HasOverlay(n) /\ Overlay(n).duration = Gap(n)

\* a cue that lasts until the next cue, which starts before the scene ends
C4_Witness ==
    \E n \in 1..Len(project.scenes) :
        /\ Rendered(n) /\ ~Declares(n)
        /\ Len(Cues(n)) > 1
        /\ Gap(n) > 0
        /\ Gap(n) # project.scenes[n].audio_duration - Cues(n)[1].start_offset
        /\ Overlay(n).duration = Gap(n)

\* a cue list whose start offsets lie in [0, D) and never decrease
WellFormed(n) ==
    /\ \A k \in 1..Len(Cues(n)) :
           /\ 0 <= Cues(n)[k].start_offset
           /\ Cues(n)[k].start_offset < project.scenes[n].audio_duration
    /\ \A k \in 1..(Len(Cues(n)) - 1) :
           Cues(n)[k].start_offset <= Cues(n)[k + 1].start_offset
InScene(n) ==
    /\ Overlay(n).duration >= 0
    /\ 0 <= Overlay(n).start
    /\ Overlay(n).start + Overlay(n).duration <= project.scenes[n].audio_duration

C6_NegativeClamped ==
    \A n \in 1..Len(project.scenes) :
        Rendered(n) /\ ~Declares(n) /\ Gap(n) < 0 =>
            /\ HasOverlay(n)
            /\ Overlay(n).duration = ClampFloor
            /\ pc \in {"thumbnail", "bgm", "output"} \/ outcome = "written" =>
                   \E k \in 1..Len(final_video) : final_video[k] = ClipOf(n)

\* a cue that starts after the next one, rendered into the written video
C6_Witness ==
    /\ outcome = "written"
    /\ \E n \in 1..Len(project.scenes) :
           /\ Rendered(n) /\ ~Declares(n)
           /\ Len(Cues(n)) > 1
           /\ Cues(n)[1].start_offset > Cues(n)[2].start_offset
           /\ Overlay(n).duration = ClampFloor
           /\ \E k \in 1..Len(final_video) : final_video[k] = ClipOf(n)

\* the scenes of scene_clips, by number, and the surviving scenes among the
\* first n, in input order
ClipScenes == [k \in 1..Len(scene_clips) |-> scene_clips[k].scene]
RECURSIVE SurvivorsUpTo(_)
SurvivorsUpTo(n) ==
    IF n = 0 THEN <<>>
    ELSE IF Survives(n) THEN Append(SurvivorsUpTo(n - 1), n)
    ELSE SurvivorsUpTo(n - 1)
NoSurvivor == \A n \in 1..Len(project.scenes) : ~Survives(n)

\* C7: when no scene has both its assets, the run ends with "no valid
\* scenes": nothing is concatenated, no trailing still is appended, no music
\* is opened or mixed, no directory is made and nothing is written.
C7_NoScenesNoOutput ==
    NoSurvivor =>
        /\ pc \in {"start", "scene", "image", "done"}
        /\ final_video = <<>>
        /\ ~bgm_mixed
        /\ 0 \notin open_handles
        /\ ~made_dir
        /\ ~written
        /\ pc = "done" /\ styles # NoStyles => outcome = "no_valid_scenes"

\* two scenes, one without narration and one without image, in a project
\* that names a trailing still, a music bed and a new output directory
C7_Witness ==
    /\ pc = "done"
    /\ outcome = "no_valid_scenes"
    /\ Len(project.scenes) >= 2
    /\ \E n \in 1..Len(project.scenes) : ~project.scenes[n].audio_exists
    /\ \E n \in 1..Len(project.scenes) :
           project.scenes[n].audio_exists /\ ~project.scenes[n].image_exists
    /\ project.thumbnail = "present"
    /\ project.settings.bgm = "present"
    /\ project.outdir = "absent"

\* C8: the compositions handed to concatenation are those of the scenes with
\* both assets, one each, in input order; so it is after every scene of the
\* loop.
C8_SurvivorsInOrder ==
    /\ pc = "scene" => ClipScenes = SurvivorsUpTo(Min(i - 1, Len(project.scenes)))
    /\ pc \in {"thumbnail", "bgm", "output"} \/ outcome = "written" =>
           /\ ClipScenes = SurvivorsUpTo(Len(project.scenes))
           /\ SubSeq(final_video, 1, Len(scene_clips)) = scene_clips

\* three scenes of which the middle one lacks an asset: the first and the
\* third are concatenated
C8_Witness ==
    /\ pc = "thumbnail"
    /\ Len(project.scenes) = 3
    /\ ~Survives(2)
    /\ ClipScenes = <<1, 3>>
    /\ final_video = scene_clips

\* C9: once a scene is emitted or skipped, no audio reader opened for it is
\* still open.
C9_HandlesReleased ==
    \A h \in open_handles : h # 0 => ~Processed(h)

Kinds(clip) == [k \in 1..Len(clip.layers) |-> clip.layers[k].kind]

\* C12: the layers of every emitted scene are, bottom first, an optional
\* background, one image and an optional text overlay; the overlay is there
\* exactly when the scene lists a cue, and it carries the start, the
\* position and the characters of the first cue, however many cues follow.
C12_LayerOrder ==
    \A k \in 1..Len(scene_clips) :
        LET clip == scene_clips[k]
            cues == project.scenes[clip.scene].subtitles
        IN  /\ Kinds(clip) \in {<<"image">>, <<"background", "image">>,
                                <<"image", "text">>,
                                <<"background", "image", "text">>}
            /\ (cues # <<>>) <=> (Len(TextLayers(clip)) = 1)
            /\ cues # <<>> =>
                   /\ TextLayers(clip)[1].start = cues[1].start_offset
                   /\ TextLayers(clip)[1].position = cues[1].position
                   /\ Content(TextLayers(clip)[1].text) = Content(cues[1].text) \o <<" ">>

\* a scene of two cues emitted with a background, its image and one overlay
C12_Witness ==
    \E k \in 1..Len(scene_clips) :
        /\ Len(project.scenes[scene_clips[k].scene].subtitles) = 2
        /\ Kinds(scene_clips[k]) = <<"background", "image", "text">>
        /\ Content(scene_clips[k].layers[3].text) = <<"a", "b", "b", " ">>

\* every composition built so far: the scenes' and, once appended, the
\* trailing still's
Compositions ==
    {scene_clips[k] : k \in 1..Len(scene_clips)}
    \cup {final_video[k] : k \in 1..Len(final_video)}
Canvas == <<project.settings.width, project.settings.height>>
HasFill(clip, rgb) ==
    /\ Len(clip.layers) >= 2
    /\ clip.layers[1].kind = "background"
    /\ clip.layers[1].size = Canvas
    /\ clip.layers[1].color = rgb
    /\ clip.layers[2].kind = "image"
HasSomeFill(clip) ==
    /\ Len(clip.layers) >= 2
    /\ clip.layers[1].kind = "background"
    /\ clip.layers[1].size = Canvas
    /\ clip.layers[2].kind = "image"
NoFill(clip) == \A k \in 1..Len(clip.layers) : clip.layers[k].kind # "background"

\* the fill the settings' background color stands for: white when the key is
\* absent, the list of three numbers, the '#' string of six hex digits, the
\* name black between blanks and in any case; <<>> for every other value
FillOf(value) ==
    CASE value = Absent -> <<255, 255, 255>>
      [] value = JList(<<1, 2, 3>>) -> <<1, 2, 3>>
      [] value = JStr(<<"#", "f", "F", "0", "0", "1", "0">>) -> <<255, 0, 16>>
      [] value = JStr(<<" ", "B", "l", "a", "c", "k">>) -> <<0, 0, 0>>
      [] OTHER -> <<>>

====
